---------------------------- MODULE Spec2Model ----------------------------
(***************************************************************************)
(* A model of job_alert.py: one run of main() fetches three HTML job       *)
(* boards through safe_get_text, queries the Remotive API, filters the     *)
(* records by keyword, deduplicates them against previous_jobs.json,       *)
(* rewrites that file and hands the new records to the delivery chain      *)
(* SendGrid -> Gmail -> Telegram.  Runs follow each other; each run is a   *)
(* fresh process whose only memory of earlier runs is the file.            *)
(*                                                                         *)
(* Text is modelled as a sequence of symbols (a symbol is a character or   *)
(* a whole word); None is a value apart from every text.                   *)
(***************************************************************************)
EXTENDS Integers, Sequences, FiniteSets, TLC

\* ------------------------------------------------------------------ bounds

\* Runs of main() that one behaviour of the model follows.
MaxRuns == 2

\* Records the upstream sources hand out, in total, during one run.
MaxItems == 2

\* The largest retries a call of safe_get_text is given.
MaxRetries == 3

\* --------------------------------------------------------- program constants

\* safe_get_text(url, retries=3, backoff=2)
Retries == 3

Backoff == 2

\* random.uniform(5, 10) after a 429
Jitter429Lo == 5

Jitter429Hi == 10

\* random.uniform(1, 3) after a RequestException
JitterExcLo == 1

JitterExcHi == 3

\* build_html_table lists jobs[:100]
ReportLimit == 100

\* ---------------------------------------------------------------- text

None == <<"<None>">>

Str(w) == <<w>>

EmptyStr == <<>>

\* Python truthiness of an optional string: None and "" are falsy.
Truthy(s) == s # None /\ s # EmptyStr

\* str.lower(), symbol by symbol.
LowerSym(c) ==
    CASE c = "Video"      -> "video"
      [] c = "Editor"     -> "editor"
      [] c = "Intern"     -> "intern"
      [] c = "Junior"     -> "junior"
      [] c = "Accountant" -> "accountant"
      [] OTHER            -> c

Lower(s) == [i \in 1..Len(s) |-> LowerSym(s[i])]

\* k in t  (substring containment)
Contains(t, k) ==
    \E i \in 0..(Len(t) - Len(k)) : SubSeq(t, i + 1, i + Len(k)) = k

\* The rank of a symbol in Python's ordering of str (the code point of a
\* character; words are ranked among themselves as their spellings compare).
Code(c) ==
    CASE c = " "  -> 32
      [] c = "#"  -> 35
      [] c = "("  -> 40
      [] c = ")"  -> 41
      [] c = "/"  -> 47
      [] c = "0"  -> 48
      [] c = "1"  -> 49
      [] c = "2"  -> 50
      [] c = "3"  -> 51
      [] c = "4"  -> 52
      [] c = "5"  -> 53
      [] c = "6"  -> 54
      [] c = "7"  -> 55
      [] c = "8"  -> 56
      [] c = "9"  -> 57
      [] c = "Accountant" -> 65
      [] c = "Acme"       -> 66
      [] c = "Editor"     -> 69
      [] c = "Indeed"     -> 73
      [] c = "Intern"     -> 74
      [] c = "Junior"     -> 75
      [] c = "N/A"        -> 78
      [] c = "RemoteRocketship" -> 82
      [] c = "Remotive"   -> 83
      [] c = "Unknown"    -> 85
      [] c = "Video"      -> 86
      [] c = "Wellfound"  -> 87
      [] c = "a"  -> 97
      [] c = "b"  -> 98
      [] c = "|"  -> 124
      [] OTHER    -> 127

\* s < t in Python's ordering of str: lexicographic, a proper prefix first.
RECURSIVE StrLess(_, _)
StrLess(s, t) ==
    IF t = <<>> THEN FALSE
    ELSE IF s = <<>> THEN TRUE
    ELSE IF Code(Head(s)) # Code(Head(t)) THEN Code(Head(s)) < Code(Head(t))
    ELSE StrLess(Tail(s), Tail(t))

\* str.strip(): leading and trailing whitespace removed.
RECURSIVE LStrip(_)
LStrip(s) == IF s # <<>> /\ Head(s) = " " THEN LStrip(Tail(s)) ELSE s

RECURSIVE RStrip(_)
RStrip(s) ==
    IF s # <<>> /\ s[Len(s)] = " " THEN RStrip(SubSeq(s, 1, Len(s) - 1)) ELSE s

Strip(s) == RStrip(LStrip(s))

Range(s) == {s[i] : i \in 1..Len(s)}

Min(a, b) == IF a < b THEN a ELSE b

\* A finite sequence has no index past its length: s[:n]
Take(s, n) == SubSeq(s, 1, Min(Len(s), n))

\* All sequences over S of length at most n.
SeqsUpTo(S, n) == UNION {[1..k -> S] : k \in 0..n}

\* ---------------------------------------------------------------- config

KEYWORDS ==
    << <<"video", " ", "editor">>,
       <<"junior", " ", "video", " ", "editor">>,
       <<"entry", " ", "level", " ", "video", " ", "editor">>,
       <<"video", " ", "intern">>,
       <<"youtube", " ", "video", " ", "editor">> >>

SOURCES ==
    << [type |-> "indeed",       name |-> Str("Indeed")],
       [type |-> "wellfound",    name |-> Str("Wellfound")],
       [type |-> "generic_html", name |-> Str("RemoteRocketship")] >>

\* The six os.getenv reads; TRUE is a non-empty value.
CredentialNames ==
    {"TO_EMAIL", "FROM_EMAIL", "SMTP_PASS", "SENDGRID_API_KEY",
     "TELEGRAM_BOT_TOKEN", "TELEGRAM_CHAT_ID"}

Environments == [CredentialNames -> BOOLEAN]

NoEnvironment == [c \in CredentialNames |-> FALSE]

\* ------------------------------------------------------- what upstream serves

TitleIntern == <<"Video", " ", "Editor", " ", "Intern">>

TitleAccountant == <<"Accountant">>

LinkA1 == <<"a", "/", "1">>

LinkA2 == <<"a", "/", "2">>

Job(t, l, c, s) == [title |-> t, link |-> l, company |-> c, source |-> s]

\* What scrape_indeed can return for a page: a card's href may be empty.
IndeedCards ==
    { Job(TitleIntern, LinkA1, Str("Acme"), Str("Indeed")),
      Job(TitleAccountant, LinkA2, Str("Acme"), Str("Indeed")),
      Job(TitleIntern, EmptyStr, Str("Acme"), Str("Indeed")) }

\* scrape_wellfound: urljoin makes every link non-empty; a company tag may
\* hold no text.
WellfoundCards ==
    { Job(TitleIntern, LinkA2, EmptyStr, Str("Wellfound")) }

\* scrape_generic_html: company None, no "source" key (read as None).
GenericCards ==
    { Job(TitleIntern, LinkA1, None, None) }

\* fetch_remotive_jobs: j.get(...) is None for a key the API left out.
RemotiveJobs ==
    { Job(TitleIntern, LinkA1, Str("Acme"), Str("Remotive")),
      Job(TitleIntern, None, Str("Acme"), Str("Remotive")),
      Job(TitleIntern, None, None, Str("Remotive")),
      Job(None, LinkA2, Str("Acme"), Str("Remotive")) }

Cards(type) ==
    CASE type = "indeed"    -> IndeedCards
      [] type = "wellfound" -> WellfoundCards
      [] OTHER              -> GenericCards

\* ------------------------------------------------------- pure functions

\* keywords_match(title): (title or "").lower() contains some keyword.
keywords_match(title) ==
    LET t == Lower(IF Truthy(title) THEN title ELSE EmptyStr)
    IN  \E n \in 1..Len(KEYWORDS) : Contains(t, KEYWORDS[n])

\* hashlib.sha256(s).hexdigest(), idealised: injective, and no digest is a
\* link ("#" heads no link).
Sha256Hex(s) == <<"#">> \o s

\* job_id raises TypeError when it has to concatenate a None field.
job_id_raises(job) ==
    /\ ~Truthy(job.link)
    /\ None \in {job.title, job.company, job.source}

\* job_id(job) where it does not raise.
job_id(job) ==
    IF Truthy(job.link) THEN job.link
    ELSE Sha256Hex(Strip(job.title \o <<"|">> \o job.company \o <<"|">> \o job.source))

\* The state file: missing, not JSON, a JSON list (of strings, when main
\* wrote it), or a JSON object, of which set() takes the keys.
MissingFile == [state |-> "missing", ids |-> <<>>]

CorruptFile == [state |-> "corrupt", ids |-> <<>>]

ListFile(ids) == [state |-> "list", ids |-> ids]

ObjectFile(keys) == [state |-> "object", ids |-> keys]

\* The JSON number 1 as an element of a list; no text starts as it does.
Int1 == <<"<int>", "1">>

IsInt(x) == x # <<>> /\ Head(x) = "<int>"

\* Mutant: the file is never read back.
load_previous_forgets(f) == {}

\* load_previous(): set(json.loads(text)); set() for a missing or unparseable file.
load_previous(f) == IF f.state \in {"list", "object"} THEN Range(f.ids) ELSE {}

\* sorted(list(ids)) raises TypeError when it has to compare an int with a str.
sorted_raises(S) == \E x, y \in S : IsInt(x) /\ ~IsInt(y)

\* sorted(list(ids))
RECURSIVE Sorted(_)
Sorted(S) ==
    IF S = {} THEN <<>>
    ELSE LET m == CHOOSE x \in S : \A y \in S \ {x} : StrLess(x, y)
         IN  <<m>> \o Sorted(S \ {m})

\* Mutant: sorted(list(ids), reverse=True)
save_previous_descending(ids) ==
    LET up == Sorted(ids)
    IN  ListFile([n \in 1..Len(up) |-> up[Len(up) + 1 - n]])

\* save_previous(ids): the file's content afterwards.
save_previous(ids) == ListFile(Sorted(ids))

\* Mutant: for i, j in enumerate(jobs, 1)
build_html_table_untruncated(jobs) ==
    [kind  |-> "html",
     count |-> Len(jobs),
     rows  |-> [n \in 1..Len(jobs) |-> [index |-> n, job |-> jobs[n]]]]

\* build_html_table(jobs): one numbered row per job of jobs[:100], and the
\* count len(jobs) in the heading.
build_html_table(jobs) ==
    [kind  |-> "html",
     count |-> Len(jobs),
     rows  |-> [n \in 1..Len(Take(jobs, ReportLimit)) |-> [index |-> n, job |-> jobs[n]]]]

\* f"Found {len(new_jobs)} new video editor jobs today."
TelegramText(jobs) == [kind |-> "text", count |-> Len(jobs), rows |-> <<>>]

\* Mutant: the link is not asked for.
html_accepted_without_link(it) == keywords_match(it.title)

\* main, lines 376-381: the test an HTML item has to pass, and the record appended.
html_accepted(it) == keywords_match(it.title) /\ Truthy(it.link)

Normalised(it, source_name) ==
    [it EXCEPT !.source = source_name,
               !.company = IF ~Truthy(it.company) \/ it.company = Str("N/A")
                           THEN <<"Unknown", " ", "(">> \o source_name \o <<")">>
                           ELSE it.company]

RECURSIVE FilterHtml(_, _)
FilterHtml(items, source_name) ==
    IF items = <<>> THEN <<>>
    ELSE (IF html_accepted(Head(items))
          THEN <<Normalised(Head(items), source_name)>> ELSE <<>>)
         \o FilterHtml(Tail(items), source_name)

\* main, lines 392-394
RECURSIVE FilterApi(_)
FilterApi(rem) ==
    IF rem = <<>> THEN <<>>
    ELSE (IF keywords_match(Head(rem).title) THEN <<Head(rem)>> ELSE <<>>)
         \o FilterApi(Tail(rem))

\* Mutant: SendGrid is not asked for a sender address.
SendGridConfigured_without_sender(e) == e["SENDGRID_API_KEY"] /\ e["TO_EMAIL"]

\* main, lines 416, 419, 423: the guards of the three sends.
SendGridConfigured(e) == e["SENDGRID_API_KEY"] /\ e["TO_EMAIL"] /\ e["FROM_EMAIL"]

GmailConfigured(e) == e["FROM_EMAIL"] /\ e["SMTP_PASS"] /\ e["TO_EMAIL"]

TelegramConfigured(e) == e["TELEGRAM_BOT_TOKEN"] /\ e["TELEGRAM_CHAT_ID"]

\* backoff * attempt + jitter
Wait(attempt, jitter) == Backoff * attempt + jitter

\* ---------------------------------------------------------------- state

VARIABLES
    file,          \* previous_jobs.json
    runs,          \* runs of main() started so far
    handed,        \* history: identities some run has handed to the delivery chain
    everPersisted, \* history: every identity the state file has held
    lost,          \* history: identities the previous run had found new when
                   \* it ended before its save_previous
    pc,            \* where the running process stands ("idle": no process)
    env,           \* the credentials the process read from its environment
    prev_ids, found, new_jobs, current_ids,      \* main's locals
    src,           \* index in SOURCES of the source being processed
    html_content,  \* what safe_get_text returned for it
    retries,       \* safe_get_text's parameter
    attempt,       \* safe_get_text's loop variable
    log,           \* history of the current safe_get_text call: per request made,
                   \* what it met and how long the call then slept (0: no sleep)
    pos,           \* index in found of the job the dedup loop is at
    fetched,       \* history: every record the sources returned in this run
    writes,        \* Path.write_text calls of this run
    html,          \* the report built for delivery
    sent,          \* main's flag
    calls,         \* the sends main has invoked in this run, in order
    delivered,     \* the channel whose send returned True, or "none"
    proc,          \* processes that run main() side by side: where each
                   \* stands and its locals prev_ids, new_jobs, current_ids
    overlapped,    \* history: a process started while another was running
    twice          \* history: identities two runs have handed to the chain

fetchVars == <<retries, attempt, log>>

mainVars == <<prev_ids, found, new_jobs, current_ids, src, pos, fetched>>

deliveryVars == <<env, html, sent, calls, delivered>>

histVars == <<handed, everPersisted, lost>>

raceVars == <<proc, overlapped, twice>>

vars == <<file, runs, histVars, pc, writes, html_content,
          fetchVars, mainVars, deliveryVars, raceVars>>

NoReport == [kind |-> "none", count |-> 0, rows |-> <<>>]

Page == Str("page")

\* A page on which the scraper's loop raises at some element (an anchor
\* without href for scrape_indeed, an href urljoin rejects for
\* scrape_generic_html), or which the parser rejects as a whole.
BadPage == Str("bad page")

\* r.text of a 200 answer.
Pages == {Page, BadPage}

\* Identities of the jobs of a list (none of which makes job_id raise).
Ids(jobs) == {job_id(jobs[n]) : n \in 1..Len(jobs)}

\* The identities the state file holds, as load_previous reads them.
Persisted == load_previous(file)

\* No process: nothing of a run's memory is left.
NoProcess ==
    /\ pc' = "idle"
    /\ env' = NoEnvironment
    /\ prev_ids' = {} /\ found' = <<>> /\ new_jobs' = <<>> /\ current_ids' = {}
    /\ src' = 0 /\ pos' = 0 /\ fetched' = <<>> /\ writes' = 0
    /\ html_content' = EmptyStr
    /\ html' = NoReport /\ sent' = FALSE /\ calls' = <<>> /\ delivered' = "none"

\* The processes that may run side by side.
Procs == {1, 2}

IdleProc == [at |-> "idle", prev_ids |-> {}, new_ids |-> {}, current_ids |-> {}]

\* No process runs beside the one main() the other variables follow.
NoRace ==
    /\ proc = [p \in Procs |-> IdleProc]
    /\ overlapped = FALSE
    /\ twice = {}

InitialFiles ==
    {MissingFile, CorruptFile, ListFile(<<LinkA2>>),
     ObjectFile(<<LinkA1>>), ListFile(<<Int1>>)}

Init ==
    /\ file \in InitialFiles
    /\ runs = 0
    /\ handed = {}
    /\ everPersisted = load_previous(file)
    /\ lost = {}
    /\ pc = "idle"
    /\ env = NoEnvironment
    /\ prev_ids = {} /\ found = <<>> /\ new_jobs = <<>> /\ current_ids = {}
    /\ src = 0 /\ pos = 0 /\ fetched = <<>> /\ writes = 0
    /\ html_content = EmptyStr
    /\ retries = Retries /\ attempt = 0 /\ log = <<>>
    /\ html = NoReport /\ sent = FALSE /\ calls = <<>> /\ delivered = "none"
    /\ NoRace

\* ------------------------------------------------------- safe_get_text

\* Mutant: range(1, retries + 2).
InLoop_one_more(a, r) == a \in 1..(r + 1)

\* for attempt in range(1, retries + 1): the loop's body runs for this attempt.
InLoop(a, r) == a \in 1..r

\* One request of the loop and what follows it.  requests.get answers 200:
\* the text is returned.
Resp200 ==
    /\ pc = "fetch" /\ InLoop(attempt, retries)
    /\ log' = Append(log, [outcome |-> "200", slept |-> 0])
    /\ html_content' \in Pages
    /\ pc' = "parse"
    /\ UNCHANGED raceVars
    /\ UNCHANGED <<file, runs, histVars, writes, retries, attempt,
                   mainVars, deliveryVars>>

\* 429: sleep backoff * attempt + uniform(5, 10), then the next attempt.
Resp429 ==
    /\ pc = "fetch" /\ InLoop(attempt, retries)
    /\ \E jitter \in Jitter429Lo..Jitter429Hi :
           log' = Append(log, [outcome |-> "429", slept |-> Wait(attempt, jitter)])
    /\ attempt' = attempt + 1
    /\ UNCHANGED raceVars
    /\ UNCHANGED <<file, runs, histVars, writes, pc, html_content, retries,
                   mainVars, deliveryVars>>

\* Mutant: 401 and 403 are handled as 429 is.
RespDenied_retries ==
    /\ pc = "fetch" /\ InLoop(attempt, retries)
    /\ \E jitter \in Jitter429Lo..Jitter429Hi :
           log' = Append(log, [outcome |-> "denied", slept |-> Wait(attempt, jitter)])
    /\ attempt' = attempt + 1
    /\ UNCHANGED raceVars
    /\ UNCHANGED <<file, runs, histVars, writes, pc, html_content, retries,
                   mainVars, deliveryVars>>

\* 401 or 403: "" is returned at once.
RespDenied ==
    /\ pc = "fetch" /\ InLoop(attempt, retries)
    /\ log' = Append(log, [outcome |-> "denied", slept |-> 0])
    /\ html_content' = EmptyStr
    /\ pc' = "parse"
    /\ UNCHANGED raceVars
    /\ UNCHANGED <<file, runs, histVars, writes, retries, attempt,
                   mainVars, deliveryVars>>

\* Any other status: a warning is printed and the loop goes on.
RespOther ==
    /\ pc = "fetch" /\ InLoop(attempt, retries)
    /\ log' = Append(log, [outcome |-> "other", slept |-> 0])
    /\ attempt' = attempt + 1
    /\ UNCHANGED raceVars
    /\ UNCHANGED <<file, runs, histVars, writes, pc, html_content, retries,
                   mainVars, deliveryVars>>

\* requests.RequestException: sleep backoff * attempt + uniform(1, 3), then
\* the next attempt.
RequestFails ==
    /\ pc = "fetch" /\ InLoop(attempt, retries)
    /\ \E jitter \in JitterExcLo..JitterExcHi :
           log' = Append(log, [outcome |-> "exception", slept |-> Wait(attempt, jitter)])
    /\ attempt' = attempt + 1
    /\ UNCHANGED raceVars
    /\ UNCHANGED <<file, runs, histVars, writes, pc, html_content, retries,
                   mainVars, deliveryVars>>

\* The loop is exhausted: "" is returned.
GiveUp ==
    /\ pc = "fetch" /\ ~InLoop(attempt, retries)
    /\ html_content' = EmptyStr
    /\ pc' = "parse"
    /\ UNCHANGED raceVars
    /\ UNCHANGED <<file, runs, histVars, writes, fetchVars, mainVars, deliveryVars>>

\* A call safe_get_text(url, retries) on its own, from its first line to its
\* return (pc = "parse": back in the caller).
FetchInit ==
    /\ file = MissingFile
    /\ runs = 0
    /\ handed = {}
    /\ everPersisted = load_previous(file)
    /\ lost = {}
    /\ pc = "fetch"
    /\ env = NoEnvironment
    /\ prev_ids = {} /\ found = <<>> /\ new_jobs = <<>> /\ current_ids = {}
    /\ src = 1 /\ pos = 0 /\ fetched = <<>> /\ writes = 0
    /\ html_content = EmptyStr
    /\ retries \in 0..MaxRetries /\ attempt = 1 /\ log = <<>>
    /\ html = NoReport /\ sent = FALSE /\ calls = <<>> /\ delivered = "none"
    /\ NoRace

FetchNext ==
    \/ Resp200 \/ Resp429 \/ RespDenied \/ RespOther \/ RequestFails \/ GiveUp

FetchSpec == FetchInit /\ [][FetchNext]_vars

\* The loop is straight-line code around a request with a timeout and a
\* bounded sleep: a step that can be taken is taken.
FetchFairSpec == FetchSpec /\ WF_vars(FetchNext)

\* ---------------------------------------------------------------- main()

\* A process starts: main() loads the file and enters the loop over SOURCES.
StartRun ==
    /\ pc = "idle"
    /\ runs < MaxRuns
    /\ runs' = runs + 1
    /\ prev_ids' = load_previous(file)
    /\ found' = <<>>
    /\ new_jobs' = <<>>
    /\ src' = 1
    /\ pc' = "fetch"
    /\ UNCHANGED raceVars
    /\ UNCHANGED <<file, histVars, writes, html_content, current_ids, pos,
                   fetched, fetchVars, deliveryVars>>

\* Line 369, the call safe_get_text(url) as main sees it: it returns the
\* page's text or "" and raises nothing (FetchSpec follows the call inside).
SafeGetText ==
    /\ pc = "fetch"
    /\ html_content' \in Pages \cup {EmptyStr}
    /\ pc' = "parse"
    /\ UNCHANGED raceVars
    /\ UNCHANGED <<file, runs, histVars, writes, fetchVars, mainVars, deliveryVars>>

\* Mutant: the scraper does not return early on empty content.
Scraped_ignores_empty(type, content, room) == SeqsUpTo(Cards(type), room)

\* What the scraper of a source can return for the content fetched: nothing
\* for empty content, else some of the cards the page may hold.  When the
\* loop raises, the except clause returns the cards appended before that:
\* again some cards, or none; scrape_wellfound's loop has no statement that
\* raises after an append, so its failure is the parser's and returns none.
Scraped(type, content, room) ==
    IF content = EmptyStr THEN {<<>>}
    ELSE IF content = BadPage /\ type = "wellfound" THEN {<<>>}
    ELSE SeqsUpTo(Cards(type), room)

Tagged(items, origin) == [n \in 1..Len(items) |-> [job |-> items[n], origin |-> origin]]

\* How the records of an HTML source were obtained: from a page scraped to
\* its end, or from one whose scraping raised.
HtmlOrigin(content) == IF content = BadPage THEN "html, scraper raised" ELSE "html"

\* Mutant: the state file is rewritten after each source.
ParseSource_saves_each_source ==
    /\ pc = "parse"
    /\ \E items \in Scraped(SOURCES[src].type, html_content, MaxItems - Len(fetched)) :
          /\ found' = found \o FilterHtml(items, SOURCES[src].name)
          /\ fetched' = fetched \o
                Tagged([n \in 1..Len(items) |-> Normalised(items[n], SOURCES[src].name)],
                       HtmlOrigin(html_content))
    /\ file' = save_previous(prev_ids \cup Ids(found'))
    /\ writes' = writes + 1
    /\ html_content' = EmptyStr
    /\ IF src < Len(SOURCES)
       THEN src' = src + 1 /\ pc' = "fetch"
       ELSE src' = src /\ pc' = "api"
    /\ UNCHANGED raceVars
    /\ UNCHANGED <<runs, histVars, prev_ids, new_jobs, current_ids,
                   pos, fetchVars, deliveryVars>>

\* Lines 371-384: the page is scraped, the items that match a keyword and
\* carry a link are appended to found, and the loop moves to the next source
\* (or leaves for the API).
ParseSource ==
    /\ pc = "parse"
    /\ \E items \in Scraped(SOURCES[src].type, html_content, MaxItems - Len(fetched)) :
          /\ found' = found \o FilterHtml(items, SOURCES[src].name)
          /\ fetched' = fetched \o
                Tagged([n \in 1..Len(items) |-> Normalised(items[n], SOURCES[src].name)],
                       HtmlOrigin(html_content))
    /\ html_content' = EmptyStr
    /\ IF src < Len(SOURCES)
       THEN src' = src + 1 /\ pc' = "fetch"
       ELSE src' = src /\ pc' = "api"
    /\ UNCHANGED raceVars
    /\ UNCHANGED <<file, runs, histVars, writes, prev_ids, new_jobs, current_ids,
                   pos, fetchVars, deliveryVars>>

\* Mutant: current_ids = set()
DedupStart_empty(prev) == {}

\* Line 397: current_ids = set(prev_ids)
DedupStart(prev) == prev

\* Lines 391-397: fetch_remotive_jobs() returns the API's jobs, or [] when
\* the request or the parse fails; those whose title matches are appended,
\* and the dedup loop is set up.
FetchApi ==
    /\ pc = "api"
    /\ \E rem \in SeqsUpTo(RemotiveJobs, MaxItems - Len(fetched)) :
          /\ found' = found \o FilterApi(rem)
          /\ fetched' = fetched \o Tagged(rem, "api")
    /\ current_ids' = DedupStart(prev_ids)
    /\ pos' = 1
    /\ pc' = "dedup"
    /\ UNCHANGED raceVars
    /\ UNCHANGED <<file, runs, histVars, writes, html_content, prev_ids,
                   new_jobs, src, fetchVars, deliveryVars>>

\* Mutant: the identity accepted is not remembered within the run.
SeenAfter_forgets(ids, jid) == ids

\* Line 403: current_ids.add(jid)
SeenAfter(ids, jid) == ids \cup {jid}

\* Lines 399-403, one iteration.  A job_id that raises ends the run there.
DedupStep ==
    /\ pc = "dedup" /\ pos <= Len(found)
    /\ IF job_id_raises(found[pos])
       THEN /\ pc' = "crashed"
            /\ UNCHANGED <<new_jobs, current_ids, pos>>
       ELSE /\ IF job_id(found[pos]) \notin current_ids
               THEN /\ new_jobs' = Append(new_jobs, found[pos])
                    /\ current_ids' = SeenAfter(current_ids, job_id(found[pos]))
               ELSE UNCHANGED <<new_jobs, current_ids>>
            /\ pos' = pos + 1
            /\ pc' = pc
    /\ UNCHANGED raceVars
    /\ UNCHANGED <<file, runs, histVars, writes, html_content, prev_ids, found,
                   src, fetched, fetchVars, deliveryVars>>

\* Mutant: the file is written only when there is something new.
Persist_skipped_when_nothing_new ==
    /\ pc = "dedup" /\ pos > Len(found)
    /\ IF sorted_raises(current_ids) /\ new_jobs # <<>>
       THEN /\ pc' = "crashed"
            /\ UNCHANGED <<file, writes, everPersisted>>
       ELSE /\ IF new_jobs # <<>>
               THEN file' = save_previous(current_ids) /\ writes' = writes + 1
               ELSE UNCHANGED <<file, writes>>
            /\ everPersisted' = everPersisted \cup load_previous(file')
            /\ pc' = "deliver"
    /\ UNCHANGED raceVars
    /\ UNCHANGED <<runs, handed, lost, html_content, mainVars, fetchVars,
                   deliveryVars>>

\* Line 405: save_previous(current_ids).  When sorted raises, the process
\* ends there and nothing is written.
Persist ==
    /\ pc = "dedup" /\ pos > Len(found)
    /\ IF sorted_raises(current_ids)
       THEN /\ pc' = "crashed"
            /\ UNCHANGED <<file, writes, everPersisted>>
       ELSE /\ file' = save_previous(current_ids)
            /\ writes' = writes + 1
            /\ everPersisted' = everPersisted \cup load_previous(file')
            /\ pc' = "deliver"
    /\ UNCHANGED raceVars
    /\ UNCHANGED <<runs, handed, lost, html_content, mainVars, fetchVars,
                   deliveryVars>>

\* Lines 408-415: with new jobs, the report is built and the chain entered;
\* with none, the run is over.  The credentials were read when the module
\* was loaded; nothing before this point depends on them, so the model draws
\* them here.  found, prev_ids and current_ids are not read again.
PrepareDelivery ==
    /\ pc = "deliver"
    /\ IF new_jobs # <<>>
       THEN /\ env' \in Environments
            /\ html' = build_html_table(new_jobs)
            /\ sent' = FALSE
            /\ handed' = handed \cup Ids(new_jobs)
            /\ pc' = "sendgrid"
       ELSE /\ pc' = "done"
            /\ UNCHANGED <<env, html, sent, handed>>
    /\ prev_ids' = {} /\ found' = <<>> /\ current_ids' = {} /\ fetched' = <<>>
    /\ pos' = 0 /\ src' = 0
    /\ UNCHANGED raceVars
    /\ UNCHANGED <<file, runs, everPersisted, lost, writes, html_content,
                   new_jobs, calls, delivered, fetchVars>>

\* Lines 416-417
TrySendGrid ==
    /\ pc = "sendgrid"
    /\ IF SendGridConfigured(env)
       THEN \E ok \in BOOLEAN :
              /\ sent' = ok
              /\ calls' = Append(calls, [channel |-> "sendgrid", payload |-> html])
              /\ delivered' = IF ok THEN "sendgrid" ELSE delivered
       ELSE UNCHANGED <<sent, calls, delivered>>
    /\ pc' = "gmail"
    /\ UNCHANGED raceVars
    /\ UNCHANGED <<file, runs, histVars, writes, html_content, env, html,
                   mainVars, fetchVars>>

\* Mutant: Gmail is tried whether or not SendGrid has sent.
TryGmail_ignores_sent ==
    /\ pc = "gmail"
    /\ IF GmailConfigured(env)
       THEN \E ok \in BOOLEAN :
              /\ sent' = ok
              /\ calls' = Append(calls, [channel |-> "gmail", payload |-> html])
              /\ delivered' = IF ok THEN "gmail" ELSE delivered
       ELSE UNCHANGED <<sent, calls, delivered>>
    /\ pc' = "telegram"
    /\ UNCHANGED raceVars
    /\ UNCHANGED <<file, runs, histVars, writes, html_content, env, html,
                   mainVars, fetchVars>>

\* Lines 419-420
TryGmail ==
    /\ pc = "gmail"
    /\ IF ~sent /\ GmailConfigured(env)
       THEN \E ok \in BOOLEAN :
              /\ sent' = ok
              /\ calls' = Append(calls, [channel |-> "gmail", payload |-> html])
              /\ delivered' = IF ok THEN "gmail" ELSE delivered
       ELSE UNCHANGED <<sent, calls, delivered>>
    /\ pc' = "telegram"
    /\ UNCHANGED raceVars
    /\ UNCHANGED <<file, runs, histVars, writes, html_content, env, html,
                   mainVars, fetchVars>>

\* Mutant: a failure inside send_telegram_short is not caught.
TryTelegram_propagates ==
    /\ pc = "telegram"
    /\ IF ~sent /\ TelegramConfigured(env)
       THEN \E ok \in BOOLEAN :
              /\ calls' = Append(calls, [channel |-> "telegram", payload |-> TelegramText(new_jobs)])
              /\ delivered' = IF ok THEN "telegram" ELSE delivered
              /\ pc' = IF ok THEN "done" ELSE "crashed"
       ELSE UNCHANGED <<calls, delivered>> /\ pc' = "done"
    /\ UNCHANGED raceVars
    /\ UNCHANGED <<file, runs, histVars, writes, html_content, env, html, sent,
                   mainVars, fetchVars>>

\* Lines 423-427: the result of send_telegram_short is not kept.
TryTelegram ==
    /\ pc = "telegram"
    /\ IF ~sent /\ TelegramConfigured(env)
       THEN \E ok \in BOOLEAN :
              /\ calls' = Append(calls, [channel |-> "telegram", payload |-> TelegramText(new_jobs)])
              /\ delivered' = IF ok THEN "telegram" ELSE delivered
       ELSE UNCHANGED <<calls, delivered>>
    /\ pc' = "done"
    /\ UNCHANGED raceVars
    /\ UNCHANGED <<file, runs, histVars, writes, html_content, env, html, sent,
                   mainVars, fetchVars>>

\* main() returns, or a TypeError of job_id or of sorted ends the process.
Finish ==
    /\ pc \in {"done", "crashed"}
    /\ lost' = IF writes = 0 THEN Ids(new_jobs) ELSE {}
    /\ NoProcess
    /\ UNCHANGED raceVars
    /\ UNCHANGED <<file, runs, handed, everPersisted, fetchVars>>

\* The process is terminated from outside, wherever it stands.
Kill ==
    /\ pc \notin {"idle", "done", "crashed"}
    /\ lost' = IF writes = 0 THEN Ids(new_jobs) ELSE {}
    /\ NoProcess
    /\ UNCHANGED raceVars
    /\ UNCHANGED <<file, runs, handed, everPersisted, fetchVars>>

Next ==
    \/ StartRun \/ SafeGetText
    \/ ParseSource \/ FetchApi \/ DedupStep \/ Persist
    \/ PrepareDelivery \/ TrySendGrid \/ TryGmail \/ TryTelegram
    \/ Finish \/ Kill

Spec == Init /\ [][Next]_vars

\* ------------------------------------------------- job_id on its own

\* Field values of records without a link: text that holds the separator,
\* and text with white space at an end.
IdTitles == {<<"a">>, <<"a", "|", "b">>, <<" ", "a">>, <<"b">>}

IdCompanies == {<<"b">>, <<"b", "|", "b">>, <<"a">>}

IdSources == {Str("Remotive"), <<"Remotive", " ">>}

LinklessJobs ==
    {Job(t, l, c, so) : t \in IdTitles, l \in {None, EmptyStr},
                        c \in IdCompanies, so \in IdSources}

\* The dedup loop of main (lines 397-405) before two records without a link,
\* with nothing seen before.
JobIdInit ==
    /\ file = MissingFile
    /\ runs = 1
    /\ handed = {}
    /\ everPersisted = {}
    /\ lost = {}
    /\ pc = "dedup"
    /\ env = NoEnvironment
    /\ prev_ids = {} /\ new_jobs = <<>> /\ current_ids = {}
    /\ found \in [1..2 -> LinklessJobs]
    /\ src = Len(SOURCES) /\ pos = 1 /\ fetched = <<>> /\ writes = 0
    /\ html_content = EmptyStr
    /\ retries = Retries /\ attempt = 0 /\ log = <<>>
    /\ html = NoReport /\ sent = FALSE /\ calls = <<>> /\ delivered = "none"
    /\ NoRace

JobIdNext == DedupStep \/ Persist

JobIdSpec == JobIdInit /\ [][JobIdNext]_vars

\* ------------------------------------------- runs of main() side by side

\* The identities of the jobs upstream holds while the processes run.
UpstreamIds == {LinkA1, LinkA2}

\* Mutant: every identity found is taken as new.
NewIds_all(found_ids, prev) == found_ids

\* Lines 399-403 on identities: those found that the loaded set lacks.
NewIds(found_ids, prev) == found_ids \ prev

\* Line 357: a process starts and loads the file.
RaceLoad(p) ==
    /\ proc[p].at = "idle"
    /\ runs < MaxRuns
    /\ runs' = runs + 1
    /\ proc' = [proc EXCEPT ![p] = [IdleProc EXCEPT !.at = "loaded",
                                                    !.prev_ids = load_previous(file)]]
    /\ overlapped' = (overlapped \/ \E q \in Procs \ {p} : proc[q].at # "idle")
    /\ UNCHANGED <<file, histVars, twice, pc, writes, html_content,
                   fetchVars, mainVars, deliveryVars>>

\* Lines 362-403: the sources are fetched and filtered, and the dedup loop
\* splits what was found into seen and new.
RaceDedup(p) ==
    /\ proc[p].at = "loaded"
    /\ \E found_ids \in SUBSET UpstreamIds :
          proc' = [proc EXCEPT ![p].at = "deduped",
                               ![p].new_ids = NewIds(found_ids, proc[p].prev_ids),
                               ![p].current_ids = proc[p].prev_ids \cup found_ids]
    /\ UNCHANGED <<file, runs, histVars, overlapped, twice, pc, writes,
                   html_content, fetchVars, mainVars, deliveryVars>>

\* Line 405: the file is overwritten with this process's current_ids.
RacePersist(p) ==
    /\ proc[p].at = "deduped"
    /\ file' = save_previous(proc[p].current_ids)
    /\ everPersisted' = everPersisted \cup load_previous(file')
    /\ proc' = [proc EXCEPT ![p].at = "persisted"]
    /\ UNCHANGED <<runs, handed, lost, overlapped, twice, pc, writes,
                   html_content, fetchVars, mainVars, deliveryVars>>

\* Lines 408-429: the new jobs, if any, go to the delivery chain, and main
\* returns.
RaceDeliver(p) ==
    /\ proc[p].at = "persisted"
    /\ handed' = handed \cup proc[p].new_ids
    /\ twice' = twice \cup (proc[p].new_ids \cap handed)
    /\ proc' = [proc EXCEPT ![p] = IdleProc]
    /\ UNCHANGED <<file, runs, everPersisted, lost, overlapped, pc, writes,
                   html_content, fetchVars, mainVars, deliveryVars>>

\* No process yet, and a file that is missing or that main has written.
RaceInit ==
    /\ file \in {MissingFile, ListFile(<<LinkA2>>)}
    /\ runs = 0
    /\ handed = {}
    /\ everPersisted = load_previous(file)
    /\ lost = {}
    /\ pc = "idle"
    /\ env = NoEnvironment
    /\ prev_ids = {} /\ found = <<>> /\ new_jobs = <<>> /\ current_ids = {}
    /\ src = 0 /\ pos = 0 /\ fetched = <<>> /\ writes = 0
    /\ html_content = EmptyStr
    /\ retries = Retries /\ attempt = 0 /\ log = <<>>
    /\ html = NoReport /\ sent = FALSE /\ calls = <<>> /\ delivered = "none"
    /\ NoRace

RaceNext ==
    \E p \in Procs : RaceLoad(p) \/ RaceDedup(p) \/ RacePersist(p) \/ RaceDeliver(p)

RaceSpec == RaceInit /\ [][RaceNext]_vars

\* --------------------------------------------- a burst of matching jobs

Digits == <<"0", "1", "2", "3", "4", "5", "6", "7", "8", "9">>

\* The link of the n-th job of a results page, n < 1000.
BurstLink(n) ==
    <<"b", "/", Digits[(n \div 100) + 1], Digits[((n \div 10) % 10) + 1], Digits[(n % 10) + 1]>>

\* What main has in found after the sources returned k matching jobs with
\* links of their own, the card a/1 of Indeed last.
Burst(k) ==
    [n \in 1..k |->
        IF n < k THEN Job(TitleIntern, BurstLink(n), Str("Acme"), Str("Indeed"))
        ELSE Job(TitleIntern, LinkA1, Str("Acme"), Str("Indeed"))]

\* A first run stands before its dedup loop with about as many jobs found
\* as the report takes; no file yet.
ReportInit ==
    /\ file = MissingFile
    /\ runs = 1
    /\ handed = {}
    /\ everPersisted = {}
    /\ lost = {}
    /\ pc = "dedup"
    /\ env = NoEnvironment
    /\ prev_ids = {} /\ new_jobs = <<>> /\ current_ids = {}
    /\ \E k \in (ReportLimit - 1)..(ReportLimit + 1) : found = Burst(k)
    /\ src = Len(SOURCES) /\ pos = 1 /\ fetched = <<>> /\ writes = 0
    /\ html_content = EmptyStr
    /\ retries = Retries /\ attempt = 0 /\ log = <<>>
    /\ html = NoReport /\ sent = FALSE /\ calls = <<>> /\ delivered = "none"
    /\ NoRace

\* The run goes on to its end, and the run after it loads the file.
ReportNext ==
    \/ DedupStep \/ Persist
    \/ PrepareDelivery \/ TrySendGrid \/ TryGmail \/ TryTelegram
    \/ Finish
    \/ StartRun

ReportSpec == ReportInit /\ [][ReportNext]_vars

\* ================================================================ claims

BeforePersist == pc \in {"fetch", "parse", "api", "dedup", "crashed"}

AfterPersist == pc \in {"deliver", "sendgrid", "gmail", "telegram", "done"}

\* The jobs of found the dedup loop has been through.
Deduped == IF pc \in {"dedup", "crashed"} THEN pos - 1
           ELSE IF pc = "deliver" THEN Len(found) ELSE 0

\* ---------------------------------------------------------------- C1
\* C1: across runs that follow each other, an identity the state file has
\* held after some run is never among the new jobs of a later run, an
\* identity is handed to the delivery chain by at most one run, and a run
\* that finds nothing new invokes no send.
C1_NoRenotification ==
    /\ pc \in {"dedup", "crashed"} => Ids(new_jobs) \cap everPersisted = {}
    /\ pc = "deliver" => Ids(new_jobs) \cap handed = {}
    /\ (pc = "done" /\ new_jobs = <<>>) => (calls = <<>> /\ html = NoReport)

\* A second run has found again only jobs an earlier run handed over, and
\* has no new job.
C1_Witness ==
    /\ runs = 2
    /\ pc = "deliver"
    /\ found # <<>>
    /\ Ids(found) \subseteq handed
    /\ new_jobs = <<>>

\* ---------------------------------------------------------------- C2
\* C2: no step makes the set of identities in the state file smaller.
C2_NeverShrinks == [][load_previous(file) \subseteq load_previous(file')]_vars

\* A run has just written a file that holds what it loaded and more.
C2_Witness ==
    /\ runs = 2
    /\ pc = "deliver"
    /\ prev_ids # {}
    /\ prev_ids \subseteq Persisted
    /\ Persisted # prev_ids

\* ---------------------------------------------------------------- C3
\* C3: the k-th found job is new iff its identity is neither in the loaded
\* set nor that of an earlier found job.
FirstOfItsIdentity(k) ==
    /\ job_id(found[k]) \notin prev_ids
    /\ \A j \in 1..(k - 1) : job_id(found[j]) # job_id(found[k])

NewPositions(n) == {k \in 1..n : FirstOfItsIdentity(k)}

\* C3: new_jobs is, in encounter order, the found jobs that are the first of
\* their identity and not in the loaded set; no two of them share an identity.
C3_DedupClassifies ==
    pc \in {"dedup", "crashed", "deliver"} =>
        /\ Len(new_jobs) = Cardinality(NewPositions(Deduped))
        /\ \A k \in NewPositions(Deduped) :
              new_jobs[Cardinality({j \in NewPositions(Deduped) : j <= k})] = found[k]
        /\ \A a, b \in 1..Len(new_jobs) :
              a # b => job_id(new_jobs[a]) # job_id(new_jobs[b])

\* Two different found records share an identity, and only the first is new.
C3_Witness ==
    /\ pc = "deliver"
    /\ Len(found) = 2
    /\ found[1] # found[2]
    /\ job_id(found[1]) = job_id(found[2])
    /\ new_jobs = <<found[1]>>

\* ---------------------------------------------------------------- C4
\* The fetched records whose title matches a keyword.
KeywordMatches == {r \in Range(fetched) : keywords_match(r.job.title)}

\* C4 as claimed: after the save, the file holds the loaded identities and
\* those of the fetched records that pass the keyword filter.
C4_AsClaimed ==
    pc = "deliver" =>
        Persisted = prev_ids \cup {job_id(r.job) : r \in KeywordMatches}

\* The fetched records main appends to found: an HTML item has to carry a
\* link as well.
Kept == {r \in KeywordMatches : r.origin = "api" \/ Truthy(r.job.link)}

\* C4, amended: after the save, the file holds the loaded identities and those
\* of the fetched records that match a keyword and, coming from an HTML
\* source, carry a non-empty link; with an empty state and the records a/1
\* "Video Editor Intern" and a/2 "Accountant" the file is [a/1], and the
\* report lists one row per new job.
C4_PersistedIsLoadedPlusKept ==
    /\ pc = "deliver" => Persisted = prev_ids \cup {job_id(r.job) : r \in Kept}
    /\ (/\ pc = "deliver"
        /\ prev_ids = {}
        /\ [n \in 1..Len(fetched) |-> <<fetched[n].job.title, fetched[n].job.link>>]
             = << <<TitleIntern, LinkA1>>, <<TitleAccountant, LinkA2>> >>)
       => (file = ListFile(<<LinkA1>>) /\ Len(new_jobs) = 1)
    /\ pc = "sendgrid" =>
          /\ Len(html.rows) = Min(Len(new_jobs), ReportLimit)
          /\ \A n \in 1..Len(html.rows) : html.rows[n].job = new_jobs[n]

\* A page held a matching card without a link and a matching card with one:
\* only the second reached the file.
C4_Witness ==
    /\ pc = "deliver"
    /\ \E r \in KeywordMatches : r \notin Kept
    /\ Persisted # prev_ids

\* ---------------------------------------------------------------- C5
\* C5: the file is written by the save_previous of line 405 and by nothing
\* else, once per run; until then it holds what the run loaded, so a run that
\* ends before it leaves the file as it was; and the jobs such a run had
\* found new are new again for the next run that finds them.
C5_SingleCommitPoint ==
    /\ [](BeforePersist => (writes = 0 /\ Persisted = prev_ids))
    /\ [](AfterPersist => writes = 1)
    /\ [](pc = "deliver" => (lost \cap Ids(found)) \subseteq Ids(new_jobs))
    /\ [][/\ file' # file =>
               (pc = "dedup" /\ pos > Len(found) /\ pc' = "deliver" /\ writes' = writes + 1)
          /\ (pc # "idle" /\ pc' = "idle" /\ writes = 0) => file' = file]_vars

\* The previous run ended before its save with jobs found new; this run has
\* found them again, as new, and is handing them to the delivery chain.
C5_Witness ==
    /\ runs = 2
    /\ lost # {}
    /\ pc = "sendgrid"
    /\ lost \subseteq Ids(new_jobs)

\* ---------------------------------------------------------------- C6
\* Every request of the call so far met a 429.
All429 == \A k \in 1..Len(log) : log[k].outcome = "429"

\* C6: a call of safe_get_text returns, having made at most retries
\* requests; if every request met a 429 it has made exactly retries requests
\* (3 for retries = 3) and returns "".
C6_BoundedRetries ==
    /\ [](Len(log) <= retries)
    /\ <>(pc = "parse")
    /\ []((pc = "parse" /\ All429) => (Len(log) = retries /\ html_content = EmptyStr))

\* A call with retries = 3 has returned after three requests, each a 429.
C6_Witness ==
    /\ pc = "parse"
    /\ retries = 3
    /\ Len(log) = 3
    /\ All429
    /\ html_content = EmptyStr

\* ---------------------------------------------------------------- C7
\* C7 as claimed: of two successive attempts that both met a 429, the sleep
\* after the later is no shorter than the sleep after the earlier.
C7_AsClaimed ==
    \A k \in 1..(Len(log) - 1) :
        (log[k].outcome = "429" /\ log[k + 1].outcome = "429")
            => log[k + 1].slept >= log[k].slept

\* ---------------------------------------------------------------- C8
\* C8: a 401 or 403 is the last request of the call: no sleep follows it, ""
\* is returned, and met at the first attempt it is the only request.
C8_DeniedEndsFetch ==
    \A k \in 1..Len(log) :
        log[k].outcome = "denied" =>
            /\ k = Len(log)
            /\ log[k].slept = 0
            /\ pc = "parse"
            /\ html_content = EmptyStr
            /\ attempt = k

\* A call met a 403 at its first request and returned after it.
C8_Witness ==
    /\ pc = "parse"
    /\ retries = 3
    /\ log = <<[outcome |-> "denied", slept |-> 0]>>
    /\ html_content = EmptyStr

\* ---------------------------------------------------------------- C9
\* C9 as claimed: after a status other than 200, 429, 401, 403, and after a
\* transport failure, the call sleeps as after a 429: backoff * attempt plus
\* a jitter of the 429 range.
C9_AsClaimed ==
    \A k \in 1..Len(log) :
        log[k].outcome \in {"other", "exception"} =>
            \E jitter \in Jitter429Lo..Jitter429Hi : log[k].slept = Wait(k, jitter)

\* ---------------------------------------------------------------- C10
Priority(c) == CASE c = "sendgrid" -> 1 [] c = "gmail" -> 2 [] c = "telegram" -> 3

ConfiguredChannel(c) ==
    CASE c = "sendgrid" -> SendGridConfigured(env)
      [] c = "gmail"    -> GmailConfigured(env)
      [] c = "telegram" -> TelegramConfigured(env)

Invoked == {calls[n].channel : n \in 1..Len(calls)}

\* The channels main has gone past.
Passed ==
    CASE pc = "gmail"    -> {"sendgrid"}
      [] pc = "telegram" -> {"sendgrid", "gmail"}
      [] pc = "done" /\ new_jobs # <<>> -> {"sendgrid", "gmail", "telegram"}
      [] OTHER -> {}

\* C10: the sends are invoked in the order SendGrid, Gmail, Telegram; a send
\* is invoked only if its channel is configured and every channel before it
\* was unconfigured or was invoked and failed, and it is invoked then; after
\* a send that succeeded no other is invoked; SendGrid and Gmail are given
\* the report, Telegram the count summary.
C10_PriorityChain ==
    /\ \A a, b \in 1..Len(calls) :
          a < b => Priority(calls[a].channel) < Priority(calls[b].channel)
    /\ \A n \in 1..Len(calls) :
          /\ ConfiguredChannel(calls[n].channel)
          /\ \A c \in {"sendgrid", "gmail", "telegram"} :
                Priority(c) < Priority(calls[n].channel) =>
                    \/ ~ConfiguredChannel(c)
                    \/ (c \in Invoked /\ delivered # c)
          /\ IF calls[n].channel = "telegram"
             THEN calls[n].payload = [kind |-> "text", count |-> Len(new_jobs), rows |-> <<>>]
             ELSE calls[n].payload = html /\ html.kind = "html"
    /\ delivered # "none" => (calls # <<>> /\ calls[Len(calls)].channel = delivered)
    /\ \A c \in Passed :
          (ConfiguredChannel(c) /\ c \notin Invoked) =>
              (delivered # "none" /\ Priority(delivered) < Priority(c))

\* SendGrid was configured and failed, Gmail was not configured, Telegram
\* was configured and succeeded: delivered through Telegram, with the summary.
C10_Witness ==
    /\ pc = "done"
    /\ SendGridConfigured(env) /\ ~GmailConfigured(env) /\ TelegramConfigured(env)
    /\ delivered = "telegram"
    /\ [n \in 1..Len(calls) |-> calls[n].channel] = <<"sendgrid", "telegram">>
    /\ calls[2].payload.kind = "text"

\* ---------------------------------------------------------------- C11
Channels == {"sendgrid", "gmail", "telegram"}

Absent == {c \in CredentialNames : ~env[c]}

\* The run went through the whole chain and no send succeeded.
ChainFailed == pc = "done" /\ new_jobs # <<>> /\ delivered = "none"

\* C11 as claimed: a credential belongs to one channel, so when exactly one
\* credential is absent and no send succeeds, exactly one channel is left
\* without an attempt.
C11_AsClaimed ==
    (ChainFailed /\ Cardinality(Absent) = 1) => Cardinality(Channels \ Invoked) = 1

\* The credentials the guard of a channel reads: the recipient and the sender
\* address are read by both e-mail channels.
Needs(c) ==
    CASE c = "sendgrid" -> {"SENDGRID_API_KEY", "TO_EMAIL", "FROM_EMAIL"}
      [] c = "gmail"    -> {"FROM_EMAIL", "SMTP_PASS", "TO_EMAIL"}
      [] c = "telegram" -> {"TELEGRAM_BOT_TOKEN", "TELEGRAM_CHAT_ID"}

ChainPosition == {"sendgrid", "gmail", "telegram"}

AfterInChain(p) ==
    CASE p = "sendgrid" -> "gmail" [] p = "gmail" -> "telegram" [] p = "telegram" -> "done"

\* C11, amended: an absent credential disables every channel whose guard
\* reads it (the recipient and the sender address: both e-mail channels, each
\* other credential: one channel); a channel none of whose credentials is
\* absent is invoked unless an earlier send succeeded; and whatever
\* credentials are absent, the chain goes from each channel to the next and
\* to the end of main.
C11_GuardedChannels ==
    /\ [](\A c \in Invoked : Needs(c) \cap Absent = {})
    /\ []((pc = "done" /\ new_jobs # <<>>) =>
            \A c \in Channels :
                (Needs(c) \cap Absent = {} /\ c \notin Invoked) =>
                    (delivered # "none" /\ delivered # c))
    /\ [][(pc \in ChainPosition) => (pc' \in {AfterInChain(pc), "idle"})]_vars

\* Only the sender address was absent: neither e-mail channel was invoked,
\* Telegram was, and main reached its end.
C11_Witness ==
    /\ pc = "done"
    /\ Absent = {"FROM_EMAIL"}
    /\ Invoked = {"telegram"}

\* ---------------------------------------------------------------- C12
\* A send is invoked in this step and returns False.
SendFails == Len(calls') = Len(calls) + 1 /\ delivered' = delivered

\* C12: a send that fails takes main to the next channel and nowhere else;
\* the process ends by an exception only where nothing was written and no
\* send invoked; and throughout the chain and at the end of main, whether or
\* not a channel delivered, the file has been written once and holds the
\* identities of this run's new jobs.
C12_FailedDeliveryIsNotFatal ==
    /\ [][SendFails => (pc \in ChainPosition /\ pc' = AfterInChain(pc))]_vars
    /\ [](pc = "crashed" => (writes = 0 /\ calls = <<>>))
    /\ []((pc \in ChainPosition \/ pc = "done") =>
            (writes = 1 /\ Ids(new_jobs) \subseteq Persisted))
    /\ [][(pc = "done") => (pc' = "idle" /\ file' = file)]_vars

\* Every channel was configured and every send failed; main is at its end
\* and the file holds the new identities.
C12_Witness ==
    /\ pc = "done"
    /\ new_jobs # <<>>
    /\ delivered = "none"
    /\ Invoked = Channels
    /\ Ids(new_jobs) \subseteq Persisted

\* ---------------------------------------------------------------- C13
\* The phase a process is in: at "fetch" and at "api" it is about to fetch,
\* at "parse" to scrape and filter, at "dedup" to dedup and then to persist,
\* from "deliver" on it has persisted.
PhaseRank(p) ==
    CASE p = "idle"    -> 0
      [] p = "fetch"   -> 1
      [] p = "api"     -> 1
      [] p = "parse"   -> 2
      [] p = "dedup"   -> 3
      [] p = "crashed" -> 3
      [] p = "deliver" -> 5
      [] p \in ChainPosition -> 5
      [] p = "done"    -> 6

\* The process ends: main returns, an exception leaves it, or it is killed.
ProcessEnds == pc # "idle" /\ pc' = "idle"

Succ(p) ==
    CASE p = "idle"     -> {"fetch"}
      [] p = "fetch"    -> {"parse"}
      [] p = "parse"    -> {"fetch", "api"}
      [] p = "api"      -> {"dedup"}
      [] p = "dedup"    -> {"dedup", "crashed", "deliver"}
      [] p = "deliver"  -> {"sendgrid", "done"}
      [] p \in ChainPosition -> {AfterInChain(p)}
      [] OTHER          -> {}

MainSteps == pc # "idle" /\ pc' # "idle"

NewlyFetched == SubSeq(fetched', Len(fetched) + 1, Len(fetched'))

C15_AsClaimed ==
    /\ pc = "dedup" => \A n \in 1..Len(found) : ~job_id_raises(found[n])
    /\ pc = "crashed" => pos > Len(found)

\* ---------------------------------------------------------------- C16
Triple(job) == <<job.title, job.company, job.source>>

\* C16 as claimed: two records without a link have the same identity exactly
\* when they agree in title, company and source, so that the dedup loop
\* keeps both of two records that differ in one of the three.
C16_AsClaimed ==
    (pc = "deliver" /\ \A n \in 1..Len(found) : ~Truthy(found[n].link)) =>
        /\ \A a, b \in 1..Len(found) :
              job_id(found[a]) = job_id(found[b]) <=> Triple(found[a]) = Triple(found[b])
        /\ Triple(found[1]) # Triple(found[2]) => Len(new_jobs) = 2
        /\ Triple(found[1]) = Triple(found[2]) => Len(new_jobs) = 1

\* ---------------------------------------------------------------- C17
\* The file is what save_previous writes: a JSON list of strings.
IsIdList(f) == f.state = "list" /\ \A n \in 1..Len(f.ids) : ~IsInt(f.ids[n])

\* C17 as claimed: a run that started with a file that is missing or is not
\* a list of identity strings has loaded the empty set, and does not fail at
\* the persist step.
C17_AsClaimed ==
    (BeforePersist /\ ~IsIdList(file)) =>
        /\ prev_ids = {}
        /\ ~(pc = "crashed" /\ pos > Len(found))

\* ---------------------------------------------------------------- C18
\* The sequence ascends strictly in Python's order of str: it is sorted and
\* no entry occurs twice.
StrictlyAscending(ids) == \A n \in 1..(Len(ids) - 1) : StrLess(ids[n], ids[n + 1])

LostUpdate == ~(everPersisted \subseteq Persisted)

\* C19: as long as no process has started while another was running, the
\* file holds every identity ever written to it and no identity has been
\* handed to the delivery chain by two runs.
C19_RaceNeedsOverlap == ~overlapped => (~LostUpdate /\ twice = {})

\* Two runs overlapped and are over: the file has lost an identity one of
\* them wrote, and both have handed over the same identity.
C19_Witness ==
    /\ overlapped
    /\ \A p \in Procs : proc[p].at = "idle"
    /\ runs = 2
    /\ LostUpdate
    /\ twice # {}

\* ---------------------------------------------------------------- C20
\* The identities of the jobs the report lists.
Reported == {job_id(html.rows[n].job) : n \in 1..Len(html.rows)}

\* C20: the report lists the first min(n, 100) of the n new jobs in their
\* order, numbered from 1, and states n; that report is what the e-mail sends
\* are given; when it is built the file holds the identities of all n; a
\* new job past the 100th is in the file and not in the report; and the run
\* that follows loads every identity of this run, so that job is not new to
\* it.
C20_ReportTruncated ==
    /\ html # NoReport =>
          /\ Len(html.rows) = Min(Len(new_jobs), ReportLimit)
          /\ html.count = Len(new_jobs)
          /\ \A n \in 1..Len(html.rows) :
                html.rows[n] = [index |-> n, job |-> new_jobs[n]]
          /\ Ids(new_jobs) \subseteq Persisted
          /\ \A k \in (ReportLimit + 1)..Len(new_jobs) :
                job_id(new_jobs[k]) \in Persisted \ Reported
    /\ \A n \in 1..Len(calls) :
          calls[n].payload.kind = "html" => calls[n].payload = html
    /\ (pc = "fetch" /\ runs > 1) => (handed \subseteq prev_ids /\ handed # {})

\* A run with 101 new jobs has delivered by SendGrid a report of 100 rows;
\* the 101st job is in the file and not in the report.
C20_Witness ==
    /\ pc = "done"
    /\ Len(new_jobs) = ReportLimit + 1
    /\ Len(html.rows) = ReportLimit
    /\ html.count = ReportLimit + 1
    /\ delivered = "sendgrid"
    /\ job_id(new_jobs[ReportLimit + 1]) \in Persisted \ Reported

=============================================================================
